---------------------------- MODULE Spec2Model ----------------------------
(***************************************************************************)
(* A model of airfoil_toolkit/airfoil.py: class Airfoil.                   *)
(*                                                                         *)
(*   - the constructor's coordinate resolution chain (NACA generator,      *)
(*     UIUC database, .dat file reader);                                   *)
(*   - write_dat, with the text built character by character;              *)
(*   - generate_polars_xfoil, one step per run_xfoil call, and             *)
(*     plot_polars, which reads what the sweep attached.                   *)
(*                                                                         *)
(* Strings (names, file texts) are sequences of one-character strings.     *)
(* Coordinates are pairs of integers in units of 1e-7 chord, so that the   *)
(* "%f" conversion (6 decimals) has something to round.  Python's None     *)
(* and a missing attribute are records with a flag, so that every          *)
(* variable keeps one shape.                                               *)
(***************************************************************************)
EXTENDS Integers, Sequences, FiniteSets

VARIABLES
    pc,              \* where the program is: init, naca, uiuc, file, check,
                     \* ready (an Airfoil exists), failed (__init__ raised), sweep
    op,              \* the operation running or last run
    coordinates_arg, \* __init__'s argument `coordinates`
    name,            \* self.name
    coordinates,     \* self.coordinates: None, a path, or an array of points
    x,               \* self.x (an attribute that may not exist yet)
    y,               \* self.y
    provider_calls,  \* the coordinate providers called so far, in call order
    raised,          \* the exception the last operation let out, if any
    dat,             \* the last write_dat call: its arguments and what it returned
    file_out,        \* the content of the file write_dat wrote, if any
    polars,          \* self.polars
    Res,             \* self.Res
    sw,              \* the frame of generate_polars_xfoil: arguments, run_datas
    xfoil_calls,     \* the run_xfoil calls of the current or last sweep, in order
    pre,             \* self.polars and self.Res on entry to the sweep that is
                     \* running or that raised
    n_sweeps,        \* how many times generate_polars_xfoil was called
    plot             \* what the last plot_polars drew

vars == <<pc, op, coordinates_arg, name, coordinates, x, y, provider_calls, raised, dat, file_out,
          polars, Res, sw, xfoil_calls, pre, n_sweeps, plot>>

geometry_vars == <<coordinates_arg, name, coordinates, x, y, provider_calls>>
dat_vars == <<dat, file_out>>
sweep_vars == <<polars, Res, sw, xfoil_calls, pre, n_sweeps, plot>>

---------------------------------------------------------------------------
(* Bounds *)

\* the longest Reynolds list a sweep is called with
MaxRes == 2

\* how many sweeps one Airfoil is put through
MaxSweeps == 2

---------------------------------------------------------------------------
(* Values *)

LF == "\n"

None == [kind |-> "None", path |-> "", pts |-> <<>>]
PathTo(p) == [kind |-> "path", path |-> p, pts |-> <<>>]
Array(pts) == [kind |-> "array", path |-> "", pts |-> pts]

Unset == [set |-> FALSE, val |-> <<>>]
Attr(v) == [set |-> TRUE, val |-> v]

NoException == [type |-> "", line |-> 0, name |-> <<>>]

\* Names a caller may pass.
Name_naca0012 == <<"n", "a", "c", "a", "0", "0", "1", "2">>
Name_naca23012 == <<"n", "a", "c", "a", "2", "3", "0", "1", "2">>
Name_e423 == <<"e", "4", "2", "3">>
Name_foo == <<"f", "o", "o">>
Name_two_lines == <<"m", "y", LF, "w", "i", "n", "g">>
Names == {Name_naca0012, Name_naca23012, Name_e423, Name_foo, Name_two_lines}

\* Paths a caller may pass as `coordinates`.
Paths == {"wing.dat", "missing.dat", "garbage.dat"}

\* What each provider holds, in 1e-7 chord.
NACA0012_pts == <<<<10000000, 12600>>, <<0, 0>>, <<10000000, -12600>>>>
UIUC_naca23012_pts == <<<<10000000, 0>>, <<4999996, 600004>>, <<0, 0>>,
                        <<5000004, -300000>>>>
UIUC_e423_pts == <<<<10000000, 0>>, <<0, 4>>>>
UIUC_naca0012_pts == <<<<10000000, 12604>>, <<0, 0>>, <<10000000, -12604>>>>
File_wing_pts == <<<<10000000, 0>>, <<2500000, 812346>>, <<0, -6>>,
                   <<2500000, -400000>>, <<10000000, 0>>>>

Prefix(s, n) == IF Len(s) < n THEN s ELSE SubSeq(s, 1, n)

\* aerosandbox get_NACA_coordinates: a 4-digit "naca" name is generated, any
\* other "naca" name raises NotImplementedError, any other name ValueError.
get_NACA_coordinates(n) ==
    IF n = Name_naca0012 THEN [ok |-> TRUE, val |-> NACA0012_pts, exc |-> ""]
    ELSE IF Prefix(n, 4) = <<"n", "a", "c", "a">>
         THEN [ok |-> FALSE, val |-> <<>>, exc |-> "NotImplementedError"]
         ELSE [ok |-> FALSE, val |-> <<>>, exc |-> "ValueError"]

\* aerosandbox get_UIUC_coordinates: the database's entry, or FileNotFoundError.
get_UIUC_coordinates(n) ==
    CASE n = Name_naca0012 -> [ok |-> TRUE, val |-> UIUC_naca0012_pts, exc |-> ""]
      [] n = Name_naca23012 -> [ok |-> TRUE, val |-> UIUC_naca23012_pts, exc |-> ""]
      [] n = Name_e423 -> [ok |-> TRUE, val |-> UIUC_e423_pts, exc |-> ""]
      [] OTHER -> [ok |-> FALSE, val |-> <<>>, exc |-> "FileNotFoundError"]

\* aerosandbox get_file_coordinates: the file's points, FileNotFoundError for a
\* file that is not there, ValueError for one that holds no coordinates.
get_file_coordinates(p) ==
    CASE p = "wing.dat" -> [ok |-> TRUE, val |-> File_wing_pts, exc |-> ""]
      [] p = "missing.dat" -> [ok |-> FALSE, val |-> <<>>, exc |-> "FileNotFoundError"]
      [] OTHER -> [ok |-> FALSE, val |-> <<>>, exc |-> "ValueError"]

---------------------------------------------------------------------------
(* Airfoil.__init__ *)

\* coordinates[:, 0] and coordinates[:, 1]
Column(pts, k) == [i \in 1..Len(pts) |-> pts[i][k]]

\* a constructor that tries the name first even when a path is given
InitBranch_NameFirst(c) == "naca"

\* lines 34-37, 45: store the arguments and pick the branch
InitBranch(c) == IF c = None THEN "naca" ELSE "file"

Construct(n, c) ==
    /\ pc = "init"
    /\ op' = "__init__"
    /\ coordinates_arg' = c
    /\ name' = n
    /\ coordinates' = c
    /\ pc' = InitBranch(c)
    /\ UNCHANGED <<x, y, provider_calls, raised, dat_vars, sweep_vars>>

\* the except clause of line 40
NACA_caught == {"ValueError", "NotImplementedError"}

\* a chain that goes on to the database whatever the generator answered
AfterNACA_NoShortCircuit(r) == "uiuc"

\* where line 38-40 goes after the generator answered
AfterNACA(r) ==
    IF r.ok THEN "check" ELSE IF r.exc \in NACA_caught THEN "uiuc" ELSE "failed"

\* lines 38-40
TryNACA ==
    /\ pc = "naca"
    /\ LET r == get_NACA_coordinates(name) IN
        /\ provider_calls' = Append(provider_calls, "NACA")
        /\ coordinates' = IF r.ok THEN Array(r.val) ELSE coordinates
        /\ pc' = AfterNACA(r)
        /\ raised' = IF AfterNACA(r) = "failed"
                     THEN [type |-> r.exc, line |-> 39, name |-> name]
                     ELSE raised
    /\ UNCHANGED <<op, coordinates_arg, name, x, y, dat_vars, sweep_vars>>

\* the except clause of line 43
UIUC_caught == {"FileNotFoundError"}

\* lines 41-44
TryUIUC ==
    /\ pc = "uiuc"
    /\ LET r == get_UIUC_coordinates(name) IN
        /\ provider_calls' = Append(provider_calls, "UIUC")
        /\ coordinates' = IF r.ok THEN Array(r.val) ELSE coordinates
        /\ pc' = IF r.ok \/ r.exc \in UIUC_caught THEN "check" ELSE "failed"
        /\ raised' = IF r.ok \/ r.exc \in UIUC_caught
                     THEN raised
                     ELSE [type |-> r.exc, line |-> 42, name |-> name]
    /\ UNCHANGED <<op, coordinates_arg, name, x, y, dat_vars, sweep_vars>>

\* a reader whose error is swallowed and falls through to the name lookups
AfterFile_FallThrough(r) == IF r.ok THEN "check" ELSE "naca"

\* where line 47 goes after the file reader answered: nothing catches its error
AfterFile(r) == IF r.ok THEN "check" ELSE "failed"

\* lines 45-47
ReadFile ==
    /\ pc = "file"
    /\ LET r == get_file_coordinates(coordinates_arg.path) IN
        /\ provider_calls' = Append(provider_calls, "FILE")
        /\ coordinates' = IF r.ok THEN Array(r.val) ELSE coordinates
        /\ pc' = AfterFile(r)
        /\ raised' = IF AfterFile(r) = "failed"
                     THEN [type |-> r.exc, line |-> 47, name |-> name]
                     ELSE raised
    /\ UNCHANGED <<op, coordinates_arg, name, x, y, dat_vars, sweep_vars>>

\* a constructor without the check of line 49
NoCoordinates_Unchecked(c) == FALSE

\* line 49: is there nothing to build the airfoil from?
NoCoordinates(c) == c = None

\* lines 49-55: raise, or derive x and y and hand the object to the caller
CheckCoordinates ==
    /\ pc = "check"
    /\ IF NoCoordinates(coordinates)
       THEN /\ raised' = [type |-> "Exception", line |-> 50, name |-> name]
            /\ pc' = "failed"
            /\ UNCHANGED <<x, y>>
       ELSE /\ x' = Attr(Column(coordinates.pts, 1))
            /\ y' = Attr(Column(coordinates.pts, 2))
            /\ pc' = "ready"
            /\ UNCHANGED raised
    /\ UNCHANGED <<op, coordinates_arg, name, coordinates, provider_calls,
                   dat_vars, sweep_vars>>

---------------------------------------------------------------------------
(* Airfoil.write_dat *)

Abs(v) == IF v < 0 THEN -v ELSE v

DigitChar(d) == <<"0", "1", "2", "3", "4", "5", "6", "7", "8", "9">>[d + 1]

RECURSIVE Decimal(_)
\* the decimal digits of a natural number
Decimal(n) == IF n < 10 THEN <<DigitChar(n)>>
              ELSE Append(Decimal(n \div 10), DigitChar(n % 10))

RECURSIVE ZeroPad(_, _)
\* digits d, zero-filled on the left to width w
ZeroPad(d, w) == IF Len(d) >= w THEN d ELSE ZeroPad(<<"0">> \o d, w)

\* |v| (in 1e-7) rounded to 1e-6 as printf rounds; a decimal tie is settled
\* by the double's binary value in the code, and none occurs in the points above
RoundMicro(v) ==
    LET q == Abs(v) \div 10
        r == Abs(v) % 10
    IN  IF r > 5 \/ (r = 5 /\ q % 2 = 1) THEN q + 1 ELSE q

\* "%f" % v: sign, integer part, ".", six decimals
FormatF(v) ==
    LET m == RoundMicro(v) IN
    (IF v < 0 THEN <<"-">> ELSE <<>>)
        \o Decimal(m \div 1000000) \o <<".">> \o ZeroPad(Decimal(m % 1000000), 6)

\* "%f %f" % tuple(coordinate)
FormatCoordinate(c) == FormatF(c[1]) \o <<" ">> \o FormatF(c[2])

RECURSIVE Join(_, _)
\* sep.join(items)
Join(items, sep) ==
    IF Len(items) = 0 THEN <<>>
    ELSE IF Len(items) = 1 THEN items[1]
    ELSE items[1] \o <<sep>> \o Join(Tail(items), sep)

\* a write_dat that ignores include_name and never writes the name
DatContents_NoName(n, pts, include_name) ==
    [i \in 1..Len(pts) |-> FormatCoordinate(pts[i])]

\* lines 150-155: the list write_dat joins
DatContents(n, pts, include_name) ==
    (IF include_name THEN <<n>> ELSE <<>>)
        \o [i \in 1..Len(pts) |-> FormatCoordinate(pts[i])]

\* line 157
DatString(n, pts, include_name) == Join(DatContents(n, pts, include_name), LF)

\* lines 159-161: the file is written only when a filepath is given
DatFile(filepath, string, old) == IF filepath # "None" THEN Attr(string) ELSE old

\* Airfoil.write_dat(filepath, include_name), lines 150-163
write_dat(filepath, include_name) ==
    /\ pc = "ready"
    /\ LET string == DatString(name, coordinates.pts, include_name) IN
        /\ file_out' = DatFile(filepath, string, file_out)
        /\ dat' = [called |-> TRUE, filepath |-> filepath,
                   include_name |-> include_name, returned |-> string]
    /\ op' = "write_dat"
    /\ raised' = NoException
    /\ UNCHANGED <<pc, geometry_vars, sweep_vars>>

\* the filepaths write_dat is called with; "None" is Python's None
DatPaths == {"None", "out.dat"}

---------------------------------------------------------------------------
(* The geometry specification: one Airfoil(...) call, then write_dat calls *)

NoDat == [called |-> FALSE, filepath |-> "None", include_name |-> FALSE,
          returned |-> <<>>]

NoSweep == [alpha_i |-> 0, alpha_f |-> 0, alpha_step |-> 0, Res |-> <<>>,
            n_iter |-> 0, working_directory |-> "None", run_datas |-> <<>>]

NoPlot == [drawn |-> FALSE, n_curves |-> 0, n_labels |-> 0]

Init ==
    /\ pc = "init"
    /\ op = ""
    /\ coordinates_arg = None
    /\ name = <<>>
    /\ coordinates = None
    /\ x = Unset
    /\ y = Unset
    /\ provider_calls = <<>>
    /\ raised = NoException
    /\ dat = NoDat
    /\ file_out = Unset
    /\ polars = Unset
    /\ Res = Unset
    /\ sw = NoSweep
    /\ xfoil_calls = <<>>
    /\ pre = Unset
    /\ n_sweeps = 0
    /\ plot = NoPlot

Next ==
    \/ \E n \in Names, c \in {None} \cup {PathTo(p) : p \in Paths} : Construct(n, c)
    \/ TryNACA
    \/ TryUIUC
    \/ ReadFile
    \/ CheckCoordinates
    \/ \E f \in DatPaths, b \in BOOLEAN : write_dat(f, b)

Spec == Init /\ [][Next]_vars

---------------------------------------------------------------------------
(* Airfoil.generate_polars_xfoil and Airfoil.plot_polars *)

\* Reynolds numbers a caller may list
ReValues == {10000, 1000000}

RECURSIVE SeqsUpTo(_, _)
\* the sequences over S of length at most n
SeqsUpTo(S, n) ==
    IF n = 0 THEN {<<>>}
    ELSE LET shorter == SeqsUpTo(S, n - 1)
         IN  shorter \cup {Append(q, e) : q \in {t \in shorter : Len(t) = n - 1}, e \in S}

\* (alpha_i, alpha_f, alpha_step) in hundredths of a degree: a rising sweep,
\* one whose end lies below its start, one whose step is zero
AlphaChoices == {<<0, 50, 25>>, <<50, 0, 25>>, <<0, 50, 0>>}

\* the arguments one run_xfoil call gets, line 199
XfoilArgs(self, s, Re) ==
    [airfoil |-> self, alpha_i |-> s.alpha_i, alpha_f |-> s.alpha_f,
     alpha_step |-> s.alpha_step, Re |-> Re, n_iter |-> s.n_iter,
     working_directory |-> s.working_directory]

\* the angles XFOIL is asked for
AlphaSamples(a) ==
    IF a.alpha_step <= 0 \/ a.alpha_f < a.alpha_i THEN <<>>
    ELSE [k \in 1..((a.alpha_f - a.alpha_i) \div a.alpha_step + 1) |->
              a.alpha_i + (k - 1) * a.alpha_step]

\* the angles XFOIL converges at: at the lowest Reynolds number the last one is lost
ConvergedSamples(a) ==
    LET all == AlphaSamples(a) IN
    IF a.Re < 100000 /\ Len(all) > 0 THEN SubSeq(all, 1, Len(all) - 1) ELSE all

\* what run_xfoil returns when it returns: parallel alpha, CL, CD, CM
run_xfoil(a) ==
    LET al == ConvergedSamples(a)
        r == IF a.Re < 100000 THEN 1 ELSE 2
    IN  [alpha |-> al,
         CL |-> [k \in 1..Len(al) |-> 2 * al[k] + 10 * r],
         CD |-> [k \in 1..Len(al) |-> 30 - 10 * r + k],
         CM |-> [k \in 1..Len(al) |-> -(5 * r)]]

\* whether a run_xfoil call may raise: the solver can fail on any call
run_xfoil_may_raise(a) == TRUE

\* the Airfoil a sweep passes to run_xfoil
Self == [name |-> name, coordinates |-> coordinates.pts]

\* lines 165-174, 194-195: enter generate_polars_xfoil; nothing is validated
generate_polars_xfoil(alpha, Re_list, n_iter, working_directory) ==
    /\ pc = "ready"
    /\ n_sweeps < MaxSweeps
    /\ n_sweeps' = n_sweeps + 1
    /\ op' = "generate_polars_xfoil"
    /\ pc' = "sweep"
    /\ sw' = [alpha_i |-> alpha[1], alpha_f |-> alpha[2], alpha_step |-> alpha[3],
              Res |-> Re_list, n_iter |-> n_iter,
              working_directory |-> working_directory, run_datas |-> <<>>]
    /\ xfoil_calls' = <<>>
    /\ pre' = Attr(<<polars, Res>>)
    /\ raised' = NoException
    /\ UNCHANGED <<geometry_vars, dat_vars, polars, Res, plot>>

\* a comprehension that walks the Reynolds list from its end
NextRe_Reversed(s) == s.Res[Len(s.Res) - Len(s.run_datas)]

\* lines 198-204: the Reynolds number the comprehension is at
NextRe(s) == s.Res[Len(s.run_datas) + 1]

\* lines 198-204, one iteration whose run_xfoil call returns
RunXfoilReturns ==
    /\ pc = "sweep"
    /\ Len(sw.run_datas) < Len(sw.Res)
    /\ LET a == XfoilArgs(Self, sw, NextRe(sw)) IN
        /\ xfoil_calls' = Append(xfoil_calls,
                                 [args |-> a, ok |-> TRUE, result |-> run_xfoil(a)])
        /\ sw' = [sw EXCEPT !.run_datas = Append(@, run_xfoil(a))]
    /\ UNCHANGED <<pc, op, geometry_vars, raised, dat_vars, polars, Res, pre,
                   n_sweeps, plot>>

\* lines 198-204, one iteration whose run_xfoil call raises: nothing catches
\* it, so generate_polars_xfoil ends here
RunXfoilRaises ==
    /\ pc = "sweep"
    /\ Len(sw.run_datas) < Len(sw.Res)
    /\ LET a == XfoilArgs(Self, sw, NextRe(sw)) IN
        /\ run_xfoil_may_raise(a)
        /\ xfoil_calls' = Append(xfoil_calls,
                                 [args |-> a, ok |-> FALSE,
                                  result |-> [alpha |-> <<>>, CL |-> <<>>,
                                              CD |-> <<>>, CM |-> <<>>]])
    /\ raised' = [type |-> "SolverError", line |-> 199, name |-> name]
    /\ pc' = "ready"
    /\ UNCHANGED <<op, geometry_vars, dat_vars, polars, Res, sw, pre, n_sweeps, plot>>

\* a sweep that adds its runs to the ones already attached
AttachedPolars_Merged(old, run_datas) == Attr(old.val \o run_datas)

\* line 206: self.polars = run_datas
AttachedPolars(old, run_datas) == Attr(run_datas)

\* a sweep that forgets to attach the Reynolds list
AttachedRes_Forgotten(old, Re_list) == old

\* line 207: self.Res = Res
AttachedRes(old, Re_list) == Attr(Re_list)

\* lines 206-209: the list is complete; attach it and return
SweepReturns ==
    /\ pc = "sweep"
    /\ Len(sw.run_datas) = Len(sw.Res)
    /\ polars' = AttachedPolars(polars, sw.run_datas)
    /\ Res' = AttachedRes(Res, sw.Res)
    /\ pre' = Unset
    /\ pc' = "ready"
    /\ UNCHANGED <<op, geometry_vars, raised, dat_vars, sw, xfoil_calls, n_sweeps, plot>>

\* lines 226-263: one curve per entry of self.polars in each panel, one legend
\* label per entry of self.Res; AttributeError when no sweep has attached them
plot_polars ==
    /\ pc = "ready"
    /\ op' = "plot_polars"
    /\ IF polars.set /\ Res.set
       THEN /\ plot' = [drawn |-> TRUE, n_curves |-> Len(polars.val),
                        n_labels |-> Len(Res.val)]
            /\ raised' = NoException
       ELSE /\ raised' = [type |-> "AttributeError",
                          line |-> IF polars.set THEN 257 ELSE 229, name |-> name]
            /\ UNCHANGED plot
    /\ UNCHANGED <<pc, geometry_vars, dat_vars, polars, Res, sw, xfoil_calls, pre,
                   n_sweeps>>

---------------------------------------------------------------------------
(* The sweep specification: an Airfoil that exists, then sweeps and plots *)

\* the Airfoil objects the sweeps start from: Airfoil("naca0012") and
\* Airfoil("foo", "wing.dat")
BuiltAirfoils ==
    {[name |-> Name_naca0012, arg |-> None, pts |-> NACA0012_pts, calls |-> <<"NACA">>],
     [name |-> Name_foo, arg |-> PathTo("wing.dat"), pts |-> File_wing_pts,
      calls |-> <<"FILE">>]}

SweepInit ==
    /\ \E a \in BuiltAirfoils :
        /\ name = a.name
        /\ coordinates_arg = a.arg
        /\ coordinates = Array(a.pts)
        /\ x = Attr(Column(a.pts, 1))
        /\ y = Attr(Column(a.pts, 2))
        /\ provider_calls = a.calls
    /\ pc = "ready"
    /\ op = "__init__"
    /\ raised = NoException
    /\ dat = NoDat
    /\ file_out = Unset
    /\ polars = Unset
    /\ Res = Unset
    /\ sw = NoSweep
    /\ xfoil_calls = <<>>
    /\ pre = Unset
    /\ n_sweeps = 0
    /\ plot = NoPlot

SweepNext ==
    \/ \E alpha \in AlphaChoices, Re_list \in SeqsUpTo(ReValues, MaxRes) :
           generate_polars_xfoil(alpha, Re_list, 100, "None")
    \/ RunXfoilReturns
    \/ RunXfoilRaises
    \/ SweepReturns
    \/ plot_polars

SweepSpec == SweepInit /\ [][SweepNext]_vars

---------------------------------------------------------------------------
(* Properties of the constructor *)

Constructed == pc = "ready"
ConstructionOver == pc \in {"ready", "failed"}

\* C2: when the constructor is given a coordinates path, the file reader is
\* the only provider ever called, whatever the name: neither the NACA
\* generator nor the UIUC lookup appears among the calls, and once the
\* constructor is past the read the calls are exactly one call of the reader.
C2_PathUsesOnlyFileReader ==
    coordinates_arg # None =>
        /\ \A i \in 1..Len(provider_calls) : provider_calls[i] = "FILE"
        /\ pc \in {"check", "ready", "failed"} => provider_calls = <<"FILE">>

\* an Airfoil built from a file under a name both the generator and the
\* database know
C2_Witness ==
    /\ Constructed
    /\ coordinates_arg = PathTo("wing.dat")
    /\ name = Name_naca0012
    /\ get_NACA_coordinates(name).ok /\ get_UIUC_coordinates(name).ok
    /\ provider_calls = <<"FILE">>
    /\ coordinates = Array(File_wing_pts)

\* C3: without a path the providers are tried in the order generator, then
\* database, and the first success wins: the database is called only after the
\* generator declined the name, and when the generator succeeds the
\* coordinates are the generator's and the database is never called.
C3_GeneratorThenDatabase ==
    (op = "__init__" /\ coordinates_arg = None) =>
        /\ provider_calls \in {<<>>, <<"NACA">>, <<"NACA", "UIUC">>}
        /\ Len(provider_calls) = 2 =>
              /\ ~get_NACA_coordinates(name).ok
              /\ get_NACA_coordinates(name).exc \in NACA_caught
        /\ (get_NACA_coordinates(name).ok /\ pc \in {"check", "ready", "failed"}) =>
              /\ provider_calls = <<"NACA">>
              /\ coordinates = Array(get_NACA_coordinates(name).val)
              /\ pc # "failed"

\* an Airfoil built by the generator under a name the database holds too, with
\* other points
C3_Witness ==
    /\ Constructed
    /\ op = "__init__"
    /\ coordinates_arg = None
    /\ name = Name_naca0012
    /\ get_UIUC_coordinates(name).ok
    /\ get_UIUC_coordinates(name).val # get_NACA_coordinates(name).val
    /\ provider_calls = <<"NACA">>
    /\ coordinates = Array(NACA0012_pts)

\* both name-based providers decline n
Unresolvable(n) ==
    /\ ~get_NACA_coordinates(n).ok
    /\ get_NACA_coordinates(n).exc \in NACA_caught
    /\ ~get_UIUC_coordinates(n).ok
    /\ get_UIUC_coordinates(n).exc \in UIUC_caught

C5_FileErrorIsTerminal ==
    (coordinates_arg # None /\ ~get_file_coordinates(coordinates_arg.path).ok
        /\ pc \notin {"init", "file"}) =>
        /\ pc = "failed"
        /\ raised = [type |-> get_file_coordinates(coordinates_arg.path).exc,
                     line |-> 47, name |-> name]
        /\ provider_calls = <<"FILE">>
        /\ ~x.set
        /\ ~y.set

\* Airfoil("naca0012", "missing.dat") has raised, though the name alone
\* would have resolved
C5_Witness ==
    /\ pc = "failed"
    /\ coordinates_arg = PathTo("missing.dat")
    /\ name = Name_naca0012
    /\ get_NACA_coordinates(name).ok
    /\ raised.type = "FileNotFoundError"

---------------------------------------------------------------------------
(* Properties of write_dat *)

HasLF(t) == \E i \in 1..Len(t) : t[i] = LF

FirstLF(t) == CHOOSE i \in 1..Len(t) : t[i] = LF /\ \A j \in 1..(i - 1) : t[j] # LF

RECURSIVE SplitLines(_)
\* the lines of a text, as text.split("\n") gives them
SplitLines(t) ==
    IF ~HasLF(t) THEN <<t>>
    ELSE <<SubSeq(t, 1, FirstLF(t) - 1)>>
             \o SplitLines(SubSeq(t, FirstLF(t) + 1, Len(t)))

\* what the claim says of the text write_dat returned: the line count, the
\* name line, one line per coordinate in order, and the file holding the
\* returned text when a filepath was given
DatTextAsClaimed ==
    LET lines == SplitLines(dat.returned)
        pts == coordinates.pts
        k == IF dat.include_name THEN 1 ELSE 0
    IN  /\ Len(lines) = Len(pts) + k
        /\ dat.include_name => lines[1] = name
        /\ \A i \in 1..Len(pts) : lines[i + k] = FormatCoordinate(pts[i])
        /\ dat.filepath # "None" => file_out = Attr(dat.returned)

---------------------------------------------------------------------------
(* Properties of the sweep *)

InSweep == op = "generate_polars_xfoil"
SweepCompleted == InSweep /\ pc = "ready" /\ raised = NoException
SweepRaised == InSweep /\ pc = "ready" /\ raised # NoException

\* the results the logged run_xfoil calls returned, in call order
LoggedResults == [i \in 1..Len(xfoil_calls) |-> xfoil_calls[i].result]

\* the argument errors the spec calls setup errors
SetupError(s) ==
    \/ Len(s.Res) = 0
    \/ s.alpha_step = 0
    \/ (s.alpha_f < s.alpha_i /\ s.alpha_step > 0)

\* C1 as stated: when a run_xfoil call of the sweep raises, the sweep itself
\* does not raise, run_xfoil is still called for every Reynolds number of the
\* list, and the dataset the sweep attaches holds the full curves of every
\* call that returned (stated for sweeps whose arguments are in order).
C1_SweepSurvivesSolverFailure ==
    (InSweep /\ ~SetupError(sw) /\ \E i \in 1..Len(xfoil_calls) : ~xfoil_calls[i].ok) =>
        /\ raised = NoException
        /\ pc = "ready" =>
              /\ Len(xfoil_calls) = Len(sw.Res)
              /\ polars.set
              /\ Len(polars.val) = Len(sw.Res)
              /\ \A i \in 1..Len(xfoil_calls) :
                     xfoil_calls[i].ok => polars.val[i] = xfoil_calls[i].result

\* C6: in a sweep that completes, run_xfoil is called once per element of the
\* Reynolds list, in the list's order, each time with the same airfoil, alpha
\* range and step, iteration budget and working directory, and the attached
\* dataset has one entry per Reynolds number in that order, entry i being
\* what call i returned.
C6_OneRunPerReynolds ==
    InSweep =>
        /\ Len(xfoil_calls) <= Len(sw.Res)
        /\ \A i \in 1..Len(xfoil_calls) :
               xfoil_calls[i].args =
                   [airfoil |-> Self, alpha_i |-> sw.alpha_i, alpha_f |-> sw.alpha_f,
                    alpha_step |-> sw.alpha_step, Re |-> sw.Res[i],
                    n_iter |-> sw.n_iter,
                    working_directory |-> sw.working_directory]
        /\ SweepCompleted =>
              /\ Len(xfoil_calls) = Len(sw.Res)
              /\ \A i \in 1..Len(xfoil_calls) : xfoil_calls[i].ok
              /\ polars = Attr(LoggedResults)
              /\ Res = Attr(sw.Res)

\* a sweep over [1e6, 1e4] has completed, with curves of different length
C6_Witness ==
    /\ SweepCompleted
    /\ sw.Res = <<1000000, 10000>>
    /\ Len(xfoil_calls) = 2
    /\ Len(polars.val[1].alpha) # Len(polars.val[2].alpha)

\* C7 as stated: a sweep called with an empty Reynolds list or a bad alpha
\* range makes no run_xfoil call and ends by raising, with the attached
\* dataset as it was.
C7_SetupErrorsFatalUpFront ==
    (InSweep /\ SetupError(sw)) =>
        /\ xfoil_calls = <<>>
        /\ pc = "ready" => (raised # NoException /\ pre = Attr(<<polars, Res>>))

\* C8: every sweep replaces the attached dataset wholesale: the step that
\* completes a sweep leaves self.polars equal to exactly the results of that
\* sweep's run_xfoil calls and self.Res equal to its Reynolds list, and no step
\* of a sweep changes the name, the coordinates, x or y.
C8_SweepReplacesDataset ==
    [][(pc = "sweep" \/ pc' = "sweep") =>
           /\ UNCHANGED <<name, coordinates, x, y>>
           /\ (pc = "sweep" /\ pc' = "ready" /\ raised' = NoException) =>
                  /\ polars' = Attr(LoggedResults)
                  /\ Res' = Attr(sw.Res)]_vars

\* a second sweep has completed on an Airfoil that already had a dataset,
\* with a shorter Reynolds list than the dataset it replaced could have had
C8_Witness ==
    /\ SweepCompleted
    /\ n_sweeps = 2
    /\ sw.Res = <<10000>>
    /\ polars = Attr(LoggedResults)
    /\ Len(polars.val) = 1
    /\ plot.drawn /\ plot.n_curves = 2

\* C10: self.polars and self.Res are both missing or both set by one completed
\* sweep, of equal length, polars[i] being the run for Res[i]; while a sweep
\* runs and after a sweep raised, both are as they were when it started.
C10_DatasetConsistent ==
    /\ polars.set = Res.set
    /\ polars.set =>
          /\ Len(polars.val) = Len(Res.val)
          /\ \E alpha \in AlphaChoices : \A i \in 1..Len(Res.val) :
                 polars.val[i] =
                     run_xfoil([airfoil |-> Self, alpha_i |-> alpha[1],
                                alpha_f |-> alpha[2], alpha_step |-> alpha[3],
                                Re |-> Res.val[i], n_iter |-> 100,
                                working_directory |-> "None"])
    /\ (pc = "sweep" \/ SweepRaised) => pre = Attr(<<polars, Res>>)

\* a sweep raised at its second Reynolds number, after an earlier sweep had
\* attached a one-entry dataset
C10_Witness ==
    /\ SweepRaised
    /\ Len(xfoil_calls) = 2
    /\ xfoil_calls[1].ok /\ ~xfoil_calls[2].ok
    /\ polars.set
    /\ Len(polars.val) = 1
    /\ Res.val = <<1000000>>

===========================================================================
